---- MODULE Spec2Model ----
(***************************************************************************)
(* A state-machine model of claude-code-api: the CLI bridge                *)
(* (src/session/cli-bridge.ts), the session pool (src/session/pool.ts),    *)
(* the /v1/messages route with its two response assemblers                 *)
(* (routes/messages.ts, kept in src/src/session/types.ts from line 178)    *)
(* and the response translators (src/translators/response.ts).             *)
(*                                                                         *)
(* One step of the model is one macrotask of the Node event loop: a ws     *)
(* event, a child-process event, a timer callback or an incoming HTTP      *)
(* request, together with the synchronous code it runs.  A promise         *)
(* continuation that the step schedules runs as a microtask: it is a step  *)
(* of its own that no other step may precede (see Quiet).                  *)
(***************************************************************************)
EXTENDS Integers, Sequences, FiniteSets, TLC

\* ---------------------------------------------------------------- bounds
\* What a behaviour of Spec may create in all: accepted WebSockets, frames
\* handed to sendToCLI and killSession calls
MaxObjects == 4
MaxTime == 2        \* Date.now() runs over 0..MaxTime
MaxHeard == 2       \* assistant and stream notifications one call hears before its result
MaxQueueObjects == 4  \* the same, for a behaviour of SpecQueue
MaxKillObjects == 5   \* the same, for a behaviour of SpecKill
MaxCallObjects == 3   \* the same, for a behaviour of SpecCall
MaxAsmObjects == 2    \* the same, for a behaviour of SpecAsm
MaxReapObjects == 3   \* the same, for a behaviour of SpecReap
MaxGateObjects == 4   \* the same, for a behaviour of SpecGate
MaxTurnObjects == 3   \* the same, for a behaviour of SpecTurn
MaxWaitObjects == 3   \* the same, for a behaviour of SpecWait
MaxReadyObjects == 3  \* the same, for a behaviour of SpecReady
MaxStreamObjects == 2 \* the same, for a behaviour of SpecStream

\* ------------------------------------------------------------- constants
\* this.sessionTimeout, in clock ticks (30 min in the reference deployment)
sessionTimeout == 1

SessionIds == {"s1", "s2"}

VARIABLES
  now,        \* Date.now()
  sessions,   \* CliBridge.sessions: session id -> index into managed, 0 = no entry
  managed,    \* every ManagedSession object ever created (closures keep them alive)
  procs,      \* the ChildProcess of each ManagedSession, same index
  conns,      \* every WebSocket the server accepted
  requests,   \* every POST /v1/messages request, with its assembler's closure state
  nframes,    \* number of frames handed to sendToCLI so far
  nkills,     \* number of killSession calls that reached their await so far
  limit,      \* what the behaviour may create in all (set by Init, never changed)
  crashed     \* an exception reached the top of the event loop

vars == <<now, sessions, managed, procs, conns, requests, nframes, nkills, limit, crashed>>

\* ------------------------------------------------------------ protocol
\* A frame the server sends to the CLI (the object JSON.stringify is applied
\* to); n numbers the sendToCLI calls, "" stands for an absent field.
Frame(type, subtype, session_id, request_id, behavior, updatedInput, n) ==
  [type |-> type, subtype |-> subtype, session_id |-> session_id,
   request_id |-> request_id, behavior |-> behavior,
   updatedInput |-> updatedInput, n |-> n]

\* ContentBlock: text carries the block's payload
TextBlock(t) == [type |-> "text", text |-> t]
ToolUseBlock(t) == [type |-> "tool_use", text |-> t]
ThinkingBlock(t) == [type |-> "thinking", text |-> t]

\* usage; -1 stands for an absent (undefined) optional field
Usage(i, o, cc, cr) ==
  [input_tokens |-> i, output_tokens |-> o,
   cache_creation_input_tokens |-> cc, cache_read_input_tokens |-> cr]

\* CLIAssistantMessage.message; "" stands for an empty id or model,
\* "null" for a null stop_reason
AssistantMsg(id, model, content, stop_reason, usage) ==
  [type |-> "assistant", id |-> id, model |-> model, content |-> content,
   stop_reason |-> stop_reason, usage |-> usage]

\* CLIResultMessage; "null" or "" for a null or empty stop_reason
ResultMsg(stop_reason, usage) ==
  [type |-> "result", stop_reason |-> stop_reason, usage |-> usage]

\* CLISystemInitMessage
InitMsg(session_id) == [type |-> "system", subtype |-> "init", session_id |-> session_id]

\* CLIControlRequestMessage
ControlRequest(request_id, subtype, input) ==
  [type |-> "control_request", request_id |-> request_id,
   subtype |-> subtype, input |-> input]

\* CLIStreamEventMessage.event; index -1 stands for an absent index
\* content_block is the block of a content_block_start, text the delta's text
StreamEvent(etype, index, content_block, dtype, text) ==
  [type |-> "stream_event", etype |-> etype, index |-> index,
   content_block |-> content_block, dtype |-> dtype, text |-> text]

\* ---------------------------------------------------------- translators
\* JavaScript falsiness of a string-or-null value
Falsy(s) == s \in {"null", ""}

\* a || b
OrElse(a, b) == IF Falsy(a) THEN b ELSE a

\* `msg_${randomUUID()...}`: one token stands for every generated id
RandomMsgId == "msg_random"

mapStopReason(reason) ==
  IF Falsy(reason) THEN "null"
  ELSE IF reason = "end_turn" THEN "end_turn"
  ELSE IF reason = "max_tokens" THEN "max_tokens"
  ELSE IF reason = "stop_sequence" THEN "stop_sequence"
  ELSE IF reason = "tool_use" THEN "tool_use"
  ELSE "end_turn"

\* AnthropicResponse; NoResponse stands for "no response body"
NoResponse ==
  [id |-> "", type |-> "", role |-> "", content |-> <<>>, model |-> "",
   stop_reason |-> "", stop_sequence |-> "", usage |-> Usage(-1, -1, -1, -1)]

\* the response built with the assistant's usage, as buildPartialResponse does
buildWithAssistantUsage(assistant, result) ==
  [id |-> OrElse(assistant.id, RandomMsgId),
   type |-> "message",
   role |-> "assistant",
   content |-> assistant.content,
   model |-> assistant.model,
   stop_reason |-> mapStopReason(OrElse(result.stop_reason, assistant.stop_reason)),
   stop_sequence |-> "null",
   usage |-> assistant.usage]

buildAnthropicResponse(assistant, result) ==
  [id |-> OrElse(assistant.id, RandomMsgId),
   type |-> "message",
   role |-> "assistant",
   content |-> assistant.content,
   model |-> assistant.model,
   stop_reason |-> mapStopReason(OrElse(result.stop_reason, assistant.stop_reason)),
   stop_sequence |-> "null",
   usage |-> Usage(result.usage.input_tokens, result.usage.output_tokens,
                   result.usage.cache_creation_input_tokens,
                   result.usage.cache_read_input_tokens)]

\* One server-sent event: the event name and the fields of its data object
\* (index -1, output_tokens -1 and "" where the event has no such field)
Sse(event, id, model, index, content_block, text, stop_reason, output_tokens) ==
  [event |-> event, id |-> id, model |-> model, index |-> index,
   content_block |-> content_block, text |-> text,
   stop_reason |-> stop_reason, output_tokens |-> output_tokens]

NoBlock == [type |-> "", text |-> ""]

sseMessageStart(model, id) ==
  Sse("message_start", OrElse(id, RandomMsgId), model, -1, NoBlock, "", "null", 0)

ssePing == Sse("ping", "", "", -1, NoBlock, "", "", -1)

sseContentBlockStart(index, block) ==
  Sse("content_block_start", "", "", index, block, "", "", -1)

sseContentBlockDelta(index, text) ==
  Sse("content_block_delta", "", "", index, NoBlock, text, "", -1)

sseContentBlockStop(index) ==
  Sse("content_block_stop", "", "", index, NoBlock, "", "", -1)

sseMessageDelta(stopReason, outputTokens) ==
  Sse("message_delta", "", "", -1, NoBlock, "", stopReason, outputTokens)

sseMessageStop == Sse("message_stop", "", "", -1, NoBlock, "", "", -1)

\* ------------------------------------------------------------ assemblers
\* One POST /v1/messages request: the route handler's position (phase) and
\* the closure state of handleNonStreaming / handleStreaming.
\*   phase   "waitReady" getOrCreate is suspended in waitForReady
\*           "resume"    readyPromise resolved, the continuation is a pending microtask
\*           "turn"      the assembler has started
\*           "failed"    the handler returned or threw before the assembler finished starting
\*   rec     the ManagedSession getOrCreate created (0: it found an existing one)
\*   listening   the call's listeners are registered on the bridge
\*   timer   the call's setTimeout is pending
\*   status  HTTP status of the response, 0 while the response promise is pending
\*   heard   history: what the call's listeners and its timer were called with
NewRequest(sessionId, stream, rec, phase) ==
  [sessionId |-> sessionId, stream |-> stream, rec |-> rec, phase |-> phase,
   listening |-> FALSE, timer |-> FALSE, lastAssistant |-> <<>>,
   status |-> 0, error |-> "", response |-> NoResponse,
   events |-> <<>>, blockIndex |-> 0, sentMessageStart |-> FALSE,
   closed |-> FALSE, heard |-> <<>>]

\* body.model of the request
RequestModel == "req-model"

\* a response that may be settled again
resolveAgain(q, status, error, response) ==
  [q EXCEPT !.status = status, !.error = error, !.response = response]

\* resolve(c.json(body, status)) of the response promise: settling a settled
\* promise changes nothing
resolve(q, status, error, response) ==
  IF q.status # 0 THEN q
  ELSE [q EXCEPT !.status = status, !.error = error, !.response = response]

\* handleNonStreaming
cleanupNS(q) == [q EXCEPT !.listening = FALSE]

onAssistantNS(q, msg) == [q EXCEPT !.lastAssistant = <<msg>>]

onResultNS(q, msg) ==
  LET c == cleanupNS(q) IN
  IF c.lastAssistant = <<>>
  THEN resolve(c, 500, "No response received from Claude Code", NoResponse)
  ELSE resolve(c, 200, "", buildAnthropicResponse(c.lastAssistant[1], msg))

onErrorNS(q, message) == resolve(cleanupNS(q), 500, message, NoResponse)

onExitNS(q) == resolve(cleanupNS(q), 500, "CLI process exited with code", NoResponse)

onTimeoutNS(q) ==
  resolve([cleanupNS(q) EXCEPT !.timer = FALSE], 504, "Request timed out", NoResponse)

\* handleStreaming
\* try { controller.enqueue(...) } catch {}
enqueue(q, s) == IF q.closed THEN q ELSE [q EXCEPT !.events = Append(@, s)]

\* try { controller.close() } catch {}
close(q) == [q EXCEPT !.closed = TRUE]

cleanupS(q) == [q EXCEPT !.listening = FALSE, !.timer = FALSE]

RECURSIVE emitBlocks(_, _)
emitBlocks(q, content) ==
  IF content = <<>> THEN q
  ELSE LET block == Head(content)
           i == q.blockIndex
           q1 == IF block.type = "text"
                 THEN [enqueue(enqueue(enqueue(q,
                          sseContentBlockStart(i, TextBlock(""))),
                          sseContentBlockDelta(i, block.text)),
                          sseContentBlockStop(i))
                       EXCEPT !.blockIndex = i + 1]
                 ELSE IF block.type = "tool_use"
                 THEN [enqueue(enqueue(q,
                          sseContentBlockStart(i, block)),
                          sseContentBlockStop(i))
                       EXCEPT !.blockIndex = i + 1]
                 ELSE q
       IN emitBlocks(q1, Tail(content))

onAssistantS(q, msg) ==
  LET q1 == IF ~q.sentMessageStart
            THEN [enqueue(q, sseMessageStart(OrElse(msg.model, RequestModel), msg.id))
                  EXCEPT !.sentMessageStart = TRUE]
            ELSE q
  IN emitBlocks(q1, msg.content)

\* event.index ?? dflt
IndexOr(index, dflt) == IF index = -1 THEN dflt ELSE index

onStreamEventS(q, event) ==
  LET q1 == IF ~q.sentMessageStart
            THEN [enqueue(q, sseMessageStart(RequestModel, ""))
                  EXCEPT !.sentMessageStart = TRUE]
            ELSE q
  IN IF event.etype = "content_block_start"
     THEN [enqueue(q1, sseContentBlockStart(IndexOr(event.index, q1.blockIndex),
                                            event.content_block))
           EXCEPT !.blockIndex = IndexOr(event.index, q1.blockIndex) + 1]
     ELSE IF event.etype = "content_block_delta"
     THEN IF event.dtype = "text_delta"
          THEN enqueue(q1, sseContentBlockDelta(IndexOr(event.index, q1.blockIndex - 1),
                                                event.text))
          ELSE q1
     ELSE IF event.etype = "content_block_stop"
     THEN enqueue(q1, sseContentBlockStop(IndexOr(event.index, q1.blockIndex - 1)))
     ELSE q1

\* onResult closing the stream without message_stop
onResultWithoutStop(q, msg) ==
  LET c == cleanupS(q)
  IN close(IF c.sentMessageStart
           THEN enqueue(c, sseMessageDelta(OrElse(msg.stop_reason, "end_turn"),
                                           msg.usage.output_tokens))
           ELSE c)

onResultS(q, msg) ==
  LET c == cleanupS(q)
      d == IF c.sentMessageStart
           THEN enqueue(enqueue(c,
                  sseMessageDelta(OrElse(msg.stop_reason, "end_turn"),
                                  msg.usage.output_tokens)),
                  sseMessageStop)
           ELSE c
  IN close(d)

onErrorS(q) == close(cleanupS(q))

\* onExit removing the listeners and leaving the stream open
onExitLeavesOpen(q) == cleanupS(q)

onExitS(q) == close(cleanupS(q))

\* the streaming call's timer callback leaving the stream open
onTimeoutLeavesOpen(q) == cleanupS(q)

onTimeoutS(q) == close(cleanupS(q))

\* the history entry of one notification: the frame, or the event's name
Heard(name, payload) ==
  IF name \in {"assistant", "result", "stream_event"} THEN payload ELSE [type |-> name]

hear(q, name, payload) == [q EXCEPT !.heard = Append(@, Heard(name, payload))]

\* One listener set reacting to bridge.emit(name, sid, payload)
listener(q, name, payload) ==
  LET h == hear(q, name, payload)
  IN IF q.stream
     THEN CASE name = "assistant" -> onAssistantS(h, payload)
            [] name = "stream_event" -> onStreamEventS(h, payload)
            [] name = "result" -> onResultS(h, payload)
            [] name = "error" -> onErrorS(h)
            [] name = "exit" -> onExitS(h)
            [] OTHER -> q
     ELSE CASE name = "assistant" -> onAssistantNS(h, payload)
            [] name = "result" -> onResultNS(h, payload)
            [] name = "error" -> onErrorNS(h, payload)
            [] name = "exit" -> onExitNS(h)
            [] OTHER -> q

\* the call's setTimeout callback
onTimeout(q) ==
  LET h == hear(q, "timeout", 0)
  IN IF q.stream THEN onTimeoutS(h) ELSE onTimeoutNS(h)

\* bridge.emit(name, sid, payload): every registered listener is called and
\* filters on its own session id (`if (sid !== sessionId) return`)
emit(Q, name, sid, payload) ==
  [i \in DOMAIN Q |->
     IF Q[i].listening /\ Q[i].sessionId = sid
     THEN listener(Q[i], name, payload)
     ELSE Q[i]]

\* ---------------------------------------------------------------- bridge
\* spawnSession's ManagedSession literal; cliSessionId "" is undefined,
\* cliSocket 0 is null, readyResolved tells whether readyPromise is resolved
ManagedSession(sessionId, t) ==
  [sessionId |-> sessionId, state |-> "starting", lastUsedAt |-> t,
   cliSessionId |-> "", cliSocket |-> 0, pendingMessages |-> <<>>,
   readyResolved |-> FALSE]

\* The ChildProcess spawnCLI starts.
\*   status  "running"; "failing": the launch failed and its 'error' event is
\*           pending; "failed": 'error' was emitted; "exited": 'exit' was emitted
\*   signals the signals delivered to the process
\*   killers the killSession calls suspended on this process (an 'exit'
\*           listener and a grace timer each)
ChildProcess(status) == [status |-> status, signals |-> <<>>, killers |-> 0]

\* ChildProcess.kill(signal): delivered only to a process that is running
kill(p, signal) ==
  IF p.status = "running" THEN [p EXCEPT !.signals = Append(@, signal)] ELSE p

\* An accepted WebSocket: path is the session id of its URL ("bad" when the
\* URL does not match), managed the ManagedSession its handlers close over
\* (0: refused), sent what ws.send wrote to it, flushed how many of these
\* handleConnection wrote from the queue
WebSocket(path, m, readyState, closeCode, sent) ==
  [path |-> path, managed |-> m, readyState |-> readyState,
   closeCode |-> closeCode, sent |-> sent, flushed |-> Len(sent)]

\* ws.close(): an open socket starts closing
wsClose(C, c) ==
  IF c # 0 /\ C[c].readyState = "OPEN" THEN [C EXCEPT ![c].readyState = "CLOSING"] ELSE C

\* sendToCLI(managed, ndjson) on the records M and sockets C
sendToCLI(M, C, r, ndjson) ==
  IF M[r].cliSocket = 0 \/ C[M[r].cliSocket].readyState # "OPEN"
  THEN [m |-> [M EXCEPT ![r].pendingMessages = Append(@, ndjson)], c |-> C]
  ELSE [m |-> M, c |-> [C EXCEPT ![M[r].cliSocket].sent = Append(@, ndjson)]]

\* autoApprovePermission answering with the permission prompt's other verdict
autoApproveDenies(M, C, r, msg, n) ==
  sendToCLI(M, C, r,
    Frame("control_response", "success", "", msg.request_id, "deny", msg.input, n))

autoApprovePermission(M, C, r, msg, n) ==
  sendToCLI(M, C, r,
    Frame("control_response", "success", "", msg.request_id, "allow", msg.input, n))

\* sendUserMessage once the session was found
sendUserMessage(M, C, r, n, t) ==
  sendToCLI([M EXCEPT ![r].state = "busy", ![r].lastUsedAt = t], C, r,
    Frame("user", "", M[r].cliSessionId, "", "", "", n))

sendInterrupt(M, C, r, n) ==
  sendToCLI(M, C, r, Frame("control_request", "interrupt", "", "", "", "", n))

\* an init frame that resolves nothing
readyResolveNobody(Q, r) == Q

\* managed.readyResolve?.(): the creator suspended in waitForReady gets a
\* pending continuation
readyResolve(Q, r) ==
  [i \in DOMAIN Q |->
     IF Q[i].rec = r /\ Q[i].phase = "waitReady"
     THEN [Q[i] EXCEPT !.phase = "resume"] ELSE Q[i]]

\* routeMessage(sessionId, managed, msg): the new records, sockets and
\* requests, and whether a frame was sent
routeMessage(M, C, Q, r, msg, n, t) ==
  CASE msg.type = "system" ->
         IF msg.subtype = "init"
         THEN [m |-> [M EXCEPT ![r].cliSessionId = msg.session_id,
                               ![r].state = "ready",
                               ![r].readyResolved = TRUE],
               c |-> C, q |-> readyResolve(Q, r), sent |-> 0]
         ELSE [m |-> M, c |-> C, q |-> Q, sent |-> 0]
    [] msg.type = "assistant" ->
         [m |-> M, c |-> C, q |-> emit(Q, "assistant", M[r].sessionId, msg), sent |-> 0]
    [] msg.type = "result" ->
         [m |-> [M EXCEPT ![r].state = "ready", ![r].lastUsedAt = t],
          c |-> C, q |-> emit(Q, "result", M[r].sessionId, msg), sent |-> 0]
    [] msg.type = "stream_event" ->
         [m |-> M, c |-> C, q |-> emit(Q, "stream_event", M[r].sessionId, msg), sent |-> 0]
    [] msg.type = "control_request" ->
         IF msg.subtype = "can_use_tool"
         THEN LET s == autoApprovePermission(M, C, r, msg, n)
              IN [m |-> s.m, c |-> s.c, q |-> Q, sent |-> 1]
         ELSE [m |-> M, c |-> C, q |-> Q, sent |-> 0]
    [] OTHER -> [m |-> M, c |-> C, q |-> Q, sent |-> 0]

\* handleNonStreaming: register the listeners, send the user message, arm
\* the timeout.  S[sid] = 0 makes sendUserMessage throw after the listeners
\* were registered: the promise rejects and no timer is armed.
handleNonStreaming(Q, i, S, M, C, n, t) ==
  LET r == S[Q[i].sessionId]
      q1 == [Q[i] EXCEPT !.listening = TRUE]
  IN IF r = 0
     THEN [q |-> [Q EXCEPT ![i] = [q1 EXCEPT !.phase = "failed", !.status = 500,
                                             !.error = "Session not found"]],
           m |-> M, c |-> C, sent |-> 0]
     ELSE LET s == sendUserMessage(M, C, r, n, t)
          IN [q |-> [Q EXCEPT ![i] = [q1 EXCEPT !.phase = "turn", !.timer = TRUE]],
              m |-> s.m, c |-> s.c, sent |-> 1]

\* handleStreaming: the stream's start(): register the listeners, enqueue
\* the ping, send the user message, arm the timeout; the Response (200) is
\* returned at once.  When sendUserMessage throws, start() throws.
handleStreaming(Q, i, S, M, C, n, t) ==
  LET r == S[Q[i].sessionId]
      q1 == enqueue([Q[i] EXCEPT !.listening = TRUE], ssePing)
  IN IF r = 0
     THEN [q |-> [Q EXCEPT ![i] = [q1 EXCEPT !.phase = "failed", !.status = 500,
                                             !.error = "Session not found",
                                             !.closed = TRUE]],
           m |-> M, c |-> C, sent |-> 0]
     ELSE LET s == sendUserMessage(M, C, r, n, t)
          IN [q |-> [Q EXCEPT ![i] = [q1 EXCEPT !.phase = "turn", !.timer = TRUE,
                                                !.status = 200]],
              m |-> s.m, c |-> s.c, sent |-> 1]

\* the route's `if (body.stream)`
handle(Q, i, S, M, C, n, t) ==
  IF Q[i].stream THEN handleStreaming(Q, i, S, M, C, n, t)
  ELSE handleNonStreaming(Q, i, S, M, C, n, t)

\* ----------------------------------------------------------------- steps
\* No microtask is pending and the server is running
Quiet == ~crashed /\ \A i \in DOMAIN requests : requests[i].phase # "resume"

\* requests that have sent no user message (yet)
PendingSends ==
  Cardinality({i \in DOMAIN requests : requests[i].phase # "turn"})

\* what the behaviour has created so far: sockets, requests (a request that
\* reached its turn is counted by its frame), other frames, kills
Used == Len(conns) + nframes + PendingSends + nkills

Room(k) == Used + k <= limit

\* Session ids are interchangeable: the first session ever spawned is "s1"
InOrder(sid) == sid = "s1" \/ \E r \in DOMAIN managed : managed[r].sessionId = "s1"

\* getOrCreate taking only a ready session for an existing one
IsLiveWhenReady(S, M, sid) == S[sid] # 0 /\ M[S[sid]].state = "ready"

\* pool.getOrCreate's test for an existing session
IsLive(S, M, sid) == S[sid] # 0 /\ M[S[sid]].state # "exited"

\* POST /v1/messages carrying session id sid: pool.getOrCreate, then (for an
\* existing session, in the same macrotask) the assembler.  A new session is
\* spawned (spawnSession, spawnCLI) and the request suspends in waitForReady.
PostMessages(sid, stream, launch) ==
  /\ Quiet
  /\ IF IsLive(sessions, managed, sid)
     THEN LET Q == Append(requests, NewRequest(sid, stream, 0, "turn"))
              h == handle(Q, Len(Q), sessions, managed, conns, nframes + 1, now)
          IN /\ Room(1)
             /\ launch = "running"
             /\ requests' = h.q
             /\ managed' = h.m
             /\ conns' = h.c
             /\ nframes' = nframes + h.sent
             /\ UNCHANGED <<now, sessions, procs, nkills, limit, crashed>>
     ELSE /\ Room(1)
          /\ InOrder(sid)
          /\ managed' = Append(managed, ManagedSession(sid, now))
          /\ procs' = Append(procs, ChildProcess(launch))
          /\ sessions' = [sessions EXCEPT ![sid] = Len(managed) + 1]
          /\ requests' = Append(requests,
                                NewRequest(sid, stream, Len(managed) + 1, "waitReady"))
          /\ UNCHANGED <<now, conns, nframes, nkills, limit, crashed>>

\* The continuation of `await this.bridge.waitForReady(sessionId)`: getOrCreate
\* returns and the route starts the assembler.
ResumeRequest(i) ==
  /\ ~crashed
  /\ requests[i].phase = "resume"
  /\ LET h == handle(requests, i, sessions, managed, conns, nframes + 1, now)
     IN /\ requests' = h.q
        /\ managed' = h.m
        /\ conns' = h.c
        /\ nframes' = nframes + h.sent
  /\ UNCHANGED <<now, sessions, procs, nkills, limit, crashed>>

\* a readiness timeout that tears the session down
ReadyTimeoutTearsDown(i) ==
  /\ Quiet
  /\ requests[i].phase = "waitReady"
  /\ requests' = [requests EXCEPT ![i] =
        [@ EXCEPT !.phase = "failed", !.status = 500,
                  !.error = "Failed to initialize session: Timeout waiting for CLI to initialize"]]
  /\ sessions' = [sessions EXCEPT ![requests[i].sessionId] = 0]
  /\ procs' = [procs EXCEPT ![requests[i].rec] = kill(@, "SIGTERM")]
  /\ UNCHANGED <<now, managed, conns, nframes, nkills, limit, crashed>>

\* waitForReady's timer rejects the race: getOrCreate throws and the route
\* answers 500; the session stays as it is.
ReadyTimeout(i) ==
  /\ Quiet
  /\ requests[i].phase = "waitReady"
  /\ requests' = [requests EXCEPT ![i] =
        [@ EXCEPT !.phase = "failed", !.status = 500,
                  !.error = "Failed to initialize session: Timeout waiting for CLI to initialize"]]
  /\ UNCHANGED <<now, sessions, managed, procs, conns, nframes, nkills, limit, crashed>>

\* a turn timeout that interrupts the turn of the session
TurnTimeoutInterrupts(i) ==
  /\ Quiet
  /\ requests[i].timer
  /\ requests' = [requests EXCEPT ![i] = onTimeout(@)]
  /\ IF sessions[requests[i].sessionId] = 0
     THEN UNCHANGED <<managed, conns>>
     ELSE LET s == sendInterrupt(managed, conns, sessions[requests[i].sessionId], 0)
          IN managed' = s.m /\ conns' = s.c
  /\ UNCHANGED <<now, sessions, procs, nframes, nkills, limit, crashed>>

\* The assembler's 5-minute timer fires (handleNonStreaming never clears it)
TurnTimeout(i) ==
  /\ Quiet
  /\ requests[i].timer
  /\ requests' = [requests EXCEPT ![i] = onTimeout(@)]
  /\ UNCHANGED <<now, sessions, managed, procs, conns, nframes, nkills, limit, crashed>>

\* handleConnection without `managed.pendingMessages = []`
handleConnectionKeepsQueue(S, M, C, path) ==
  IF path = "bad"
  THEN [m |-> M, c |-> Append(C, WebSocket(path, 0, "CLOSING", 4000, <<>>))]
  ELSE IF S[path] = 0
  THEN [m |-> M, c |-> Append(C, WebSocket(path, 0, "CLOSING", 4001, <<>>))]
  ELSE LET r == S[path]
       IN [m |-> [M EXCEPT ![r].cliSocket = Len(C) + 1, ![r].state = "connected"],
           c |-> Append(C, WebSocket(path, r, "OPEN", 0, M[r].pendingMessages))]

\* handleConnection refusing every connection with the one close code
handleConnectionOneCode(S, M, C, path) ==
  IF path = "bad"
  THEN [m |-> M, c |-> Append(C, WebSocket(path, 0, "CLOSING", 4000, <<>>))]
  ELSE IF S[path] = 0
  THEN [m |-> M, c |-> Append(C, WebSocket(path, 0, "CLOSING", 4000, <<>>))]
  ELSE LET r == S[path]
       IN [m |-> [M EXCEPT ![r].cliSocket = Len(C) + 1,
                           ![r].state = "connected",
                           ![r].pendingMessages = <<>>],
           c |-> Append(C, WebSocket(path, r, "OPEN", 0, M[r].pendingMessages))]

\* handleConnection attaching the socket without flushing the queue
handleConnectionWithoutFlush(S, M, C, path) ==
  IF path = "bad"
  THEN [m |-> M, c |-> Append(C, WebSocket(path, 0, "CLOSING", 4000, <<>>))]
  ELSE IF S[path] = 0
  THEN [m |-> M, c |-> Append(C, WebSocket(path, 0, "CLOSING", 4001, <<>>))]
  ELSE LET r == S[path]
       IN [m |-> [M EXCEPT ![r].cliSocket = Len(C) + 1, ![r].state = "connected"],
           c |-> Append(C, WebSocket(path, r, "OPEN", 0, <<>>))]

\* handleConnection(ws, req) for a URL whose session id is path ("bad": the
\* URL does not match the pattern)
handleConnection(S, M, C, path) ==
  IF path = "bad"
  THEN [m |-> M, c |-> Append(C, WebSocket(path, 0, "CLOSING", 4000, <<>>))]
  ELSE IF S[path] = 0
  THEN [m |-> M, c |-> Append(C, WebSocket(path, 0, "CLOSING", 4001, <<>>))]
  ELSE LET r == S[path]
       IN [m |-> [M EXCEPT ![r].cliSocket = Len(C) + 1,
                           ![r].state = "connected",
                           ![r].pendingMessages = <<>>],
           c |-> Append(C, WebSocket(path, r, "OPEN", 0, M[r].pendingMessages))]

\* wss.on("connection")
Connection(path) ==
  /\ Quiet
  /\ Room(1)
  /\ LET h == handleConnection(sessions, managed, conns, path)
     IN managed' = h.m /\ conns' = h.c
  /\ UNCHANGED <<now, sessions, procs, requests, nframes, nkills, limit, crashed>>

\* frames of the CLI side
HiAssistant == AssistantMsg("msg_1", "cli-model", <<TextBlock("hi")>>, "null",
                            Usage(3, 1, -1, -1))

EndTurnResult == ResultMsg("end_turn", Usage(5, 2, -1, -1))

DeltaEvent == StreamEvent("content_block_delta", -1, NoBlock, "text_delta", "x")

\* an assistant message without id and model, with a thinking, a tool_use and
\* a text block, and cache token counts
ToolAssistant ==
  AssistantMsg("", "", <<ThinkingBlock("hm"), ToolUseBlock("ls"), TextBlock("yo")>>,
               "tool_use", Usage(7, 4, 1, 2))

\* results without a stop reason, and with one the API does not know
NullResult == ResultMsg("null", Usage(6, 3, 0, 9))

RefusalResult == ResultMsg("refusal", Usage(8, 0, -1, -1))

\* every call listening on sid can hear one more notification before its result
ListenRoom(sid) ==
  \A i \in DOMAIN requests :
    (requests[i].listening /\ requests[i].sessionId = sid)
      => Len(requests[i].heard) < MaxHeard

\* ws.on("message") with one line: JSON.parse fails on an unparsable line,
\* which is logged and dropped; any other line is routed.
WsMessage(c, msg) ==
  /\ Quiet
  /\ conns[c].managed # 0
  /\ conns[c].readyState # "CLOSED"
  /\ (msg.type = "control_request" /\ msg.subtype = "can_use_tool") => Room(1)
  /\ msg.type \in {"assistant", "stream_event"} => ListenRoom(conns[c].path)
  /\ IF msg.type = "unparsable"
     THEN UNCHANGED <<managed, conns, requests, nframes>>
     ELSE LET h == routeMessage(managed, conns, requests, conns[c].managed, msg,
                                nframes + 1, now)
          IN /\ managed' = h.m
             /\ conns' = h.c
             /\ requests' = h.q
             /\ nframes' = nframes + h.sent
  /\ UNCHANGED <<now, sessions, procs, nkills, limit, crashed>>

\* the peer's close frame arrives: the socket is closing until 'close'
WsClosing(c) ==
  /\ Quiet
  /\ conns[c].managed # 0
  /\ conns[c].readyState = "OPEN"
  /\ conns' = [conns EXCEPT ![c].readyState = "CLOSING"]
  /\ UNCHANGED <<now, sessions, managed, procs, requests, nframes, nkills, limit, crashed>>

\* ws.on("close")
WsClose(c) ==
  /\ Quiet
  /\ conns[c].managed # 0
  /\ conns[c].readyState # "CLOSED"
  /\ conns' = [conns EXCEPT ![c].readyState = "CLOSED"]
  /\ managed' = [managed EXCEPT ![conns[c].managed].cliSocket = 0]
  /\ UNCHANGED <<now, sessions, procs, requests, nframes, nkills, limit, crashed>>

\* bridge.sendInterrupt(sessionId)
SendInterrupt(sid) ==
  /\ Quiet
  /\ Room(1)
  /\ IF sessions[sid] = 0
     THEN UNCHANGED <<managed, conns, nframes>>
     ELSE LET s == sendInterrupt(managed, conns, sessions[sid], nframes + 1)
          IN managed' = s.m /\ conns' = s.c /\ nframes' = nframes + 1
  /\ UNCHANGED <<now, sessions, procs, requests, nkills, limit, crashed>>

\* the continuation of killSession keeping the record of an exited session
killSessionEndKeepsExited(S, M, C, r) ==
  IF M[r].state = "exited"
  THEN [s |-> S, c |-> wsClose(C, M[r].cliSocket)]
  ELSE [s |-> [S EXCEPT ![M[r].sessionId] = 0], c |-> wsClose(C, M[r].cliSocket)]

\* The continuation of killSession after its await, for the call that
\* captured record r: close the socket, delete the registry entry of the
\* session id.
killSessionEnd(S, M, C, r) ==
  [s |-> [S EXCEPT ![M[r].sessionId] = 0], c |-> wsClose(C, M[r].cliSocket)]

\* proc.on("exit"): spawnCLI's handler, then the 'exit' listeners of the
\* suspended killSession calls, then their continuations
ProcExit(r) ==
  /\ Quiet
  /\ procs[r].status = "running"
  /\ procs' = [procs EXCEPT ![r].status = "exited", ![r].killers = 0]
  /\ managed' = [managed EXCEPT ![r].state = "exited"]
  /\ requests' = emit(requests, "exit", managed[r].sessionId, 0)
  /\ IF procs[r].killers > 0
     THEN LET k == killSessionEnd(sessions, managed, conns, r)
          IN sessions' = k.s /\ conns' = k.c
     ELSE UNCHANGED <<sessions, conns>>
  /\ UNCHANGED <<now, nframes, nkills, limit, crashed>>

\* proc.on("error") for a launch that failed: emit("error") throws when
\* nothing listens for 'error', which nothing catches
ProcError(r) ==
  /\ Quiet
  /\ procs[r].status = "failing"
  /\ procs' = [procs EXCEPT ![r].status = "failed"]
  /\ IF \E i \in DOMAIN requests : requests[i].listening
     THEN /\ requests' = emit(requests, "error", managed[r].sessionId, "spawn claude ENOENT")
          /\ UNCHANGED crashed
     ELSE /\ crashed' = TRUE
          /\ UNCHANGED requests
  /\ UNCHANGED <<now, sessions, managed, conns, nframes, nkills, limit>>

\* killSession forcing the kill without the grace period
killSessionForcesAtOnce(S, P, sid) ==
  IF S[sid] = 0 THEN P
  ELSE [P EXCEPT ![S[sid]] =
          [kill(kill(@, "SIGTERM"), "SIGKILL") EXCEPT !.killers = @ + 1]]

\* killSession(sessionId) up to its await: SIGTERM, then wait for 'exit' or
\* the grace timer
killSession(S, P, sid) ==
  IF S[sid] = 0 THEN P
  ELSE [P EXCEPT ![S[sid]] = [kill(@, "SIGTERM") EXCEPT !.killers = @ + 1]]

KillSession(sid) ==
  /\ Quiet
  /\ Room(1)
  /\ procs' = killSession(sessions, procs, sid)
  /\ nkills' = IF sessions[sid] = 0 THEN nkills ELSE nkills + 1
  /\ UNCHANGED <<now, sessions, managed, conns, requests, nframes, limit, crashed>>

\* killSession's grace timer fires: SIGKILL, resolve, and the continuation
KillTimer(r) ==
  /\ Quiet
  /\ procs[r].killers > 0
  /\ procs' = [procs EXCEPT ![r] = [kill(@, "SIGKILL") EXCEPT !.killers = @ - 1]]
  /\ LET k == killSessionEnd(sessions, managed, conns, r)
     IN sessions' = k.s /\ conns' = k.c
  /\ UNCHANGED <<now, managed, requests, nframes, nkills, limit, crashed>>

\* the idle test with >= for >
IsIdleAtThreshold(m, t) == t - m.lastUsedAt >= sessionTimeout

\* reapIdleSessions' test on one record
IsIdle(m, t) == t - m.lastUsedAt > sessionTimeout

\* reapIdleSessions(): one pass over the registry
reapIdleSessions(S, M, P, t) ==
  LET dead == {sid \in SessionIds : S[sid] # 0 /\ M[S[sid]].state = "exited"}
      idle == {sid \in SessionIds : S[sid] # 0 /\ M[S[sid]].state # "exited"
                                     /\ IsIdle(M[S[sid]], t)}
  IN [killed |-> Cardinality(idle),
      s |-> [sid \in SessionIds |-> IF sid \in dead THEN 0 ELSE S[sid]],
      p |-> [r \in DOMAIN P |->
               IF \E sid \in idle : S[sid] = r
               THEN [kill(P[r], "SIGTERM") EXCEPT !.killers = @ + 1]
               ELSE P[r]]]

\* the reaper's setInterval callback
ReapIdleSessions ==
  /\ Quiet
  /\ LET h == reapIdleSessions(sessions, managed, procs, now)
     IN /\ Room(h.killed)
        /\ sessions' = h.s
        /\ procs' = h.p
        /\ nkills' = nkills + h.killed
  /\ UNCHANGED <<now, managed, conns, requests, nframes, limit, crashed>>

\* time passes
Tick ==
  /\ Quiet
  /\ now < MaxTime
  /\ now' = now + 1
  /\ UNCHANGED <<sessions, managed, procs, conns, requests, nframes, nkills, limit, crashed>>

\* The state after `new CliBridge(...)`: no session, nothing sent; a
\* behaviour that starts here may create k objects in all.
Boot(k) ==
  /\ now = 0
  /\ sessions = [sid \in SessionIds |-> 0]
  /\ managed = <<>>
  /\ procs = <<>>
  /\ conns = <<>>
  /\ requests = <<>>
  /\ nframes = 0
  /\ nkills = 0
  /\ limit = k
  /\ crashed = FALSE

Init == Boot(MaxObjects)

\* ======================================================= the frame queue
\* The CLI of session "s1" connects, disconnects and reconnects while the
\* server hands frames to sendToCLI: user messages, interrupts and the
\* answers to permission requests.
QueueLines ==
  {InitMsg("cli-1"),
   ControlRequest("rq1", "can_use_tool", "in1"),
   ControlRequest("rq2", "can_use_tool", "in2"),
   ControlRequest("rq3", "set_mode", "in1")}

InitQueue == Boot(MaxQueueObjects)

NextQueue ==
  \/ PostMessages("s1", FALSE, "running")
  \/ \E i \in DOMAIN requests : ResumeRequest(i)
  \/ Connection("s1")
  \/ \E c \in DOMAIN conns, msg \in QueueLines : WsMessage(c, msg)
  \/ \E c \in DOMAIN conns : WsClosing(c)
  \/ \E c \in DOMAIN conns : WsClose(c)
  \/ SendInterrupt("s1")
  \/ \E r \in DOMAIN procs : ProcExit(r)
  \/ KillSession("s1")
  \/ \E r \in DOMAIN procs : KillTimer(r)

SpecQueue == InitQueue /\ [][NextQueue]_vars

\* s is a prefix of t
IsPrefix(s, t) == Len(s) <= Len(t) /\ SubSeq(t, 1, Len(s)) = s

\* the frames of seq are in the order of their sendToCLI calls
InSendOrder(seq) ==
  \A j, k \in DOMAIN seq : j < k => seq[j].n < seq[k].n

\* where frame number n is: positions in the queues, positions in what was
\* written to the sockets
QueuedAt(n) ==
  {p \in (DOMAIN managed) \X (1..nframes) :
     /\ p[2] \in DOMAIN managed[p[1]].pendingMessages
     /\ managed[p[1]].pendingMessages[p[2]].n = n}

WrittenAt(n) ==
  {p \in (DOMAIN conns) \X (1..nframes) :
     /\ p[2] \in DOMAIN conns[p[1]].sent
     /\ conns[p[1]].sent[p[2]].n = n}

\* every frame handed to sendToCLI is either waiting in one queue or was
\* written once to one socket, and queues and sockets hold them in order
EachFrameOnce ==
  /\ \A n \in 1..nframes : Cardinality(QueuedAt(n)) + Cardinality(WrittenAt(n)) = 1
  /\ \A r \in DOMAIN managed : InSendOrder(managed[r].pendingMessages)
  /\ \A c \in DOMAIN conns : InSendOrder(conns[c].sent)

\* a step that attaches a transport to record r writes r's queue to it, as
\* queued, and leaves the queue empty
FlushedOnAttach ==
  \A r \in DOMAIN managed :
    (managed'[r].cliSocket # 0 /\ managed'[r].cliSocket # managed[r].cliSocket)
      => /\ conns'[managed'[r].cliSocket].sent = managed[r].pendingMessages
         /\ managed'[r].pendingMessages = <<>>

\* any other step leaves the queued frames queued, in place
QueueKept ==
  \A r \in DOMAIN managed :
    (managed'[r].cliSocket = 0 \/ managed'[r].cliSocket = managed[r].cliSocket)
      => IsPrefix(managed[r].pendingMessages, managed'[r].pendingMessages)

\* a frame is written only to the open transport attached to its session,
\* after what was written before
WrittenWhenOpen ==
  \A c \in DOMAIN conns :
    conns'[c].sent # conns[c].sent
      => /\ conns[c].readyState = "OPEN"
         /\ managed[conns[c].managed].cliSocket = c
         /\ IsPrefix(conns[c].sent, conns'[c].sent)

\* C1: frames sent while no open transport is attached are queued; when a
\* transport attaches the queue is written to it in FIFO order, every frame
\* exactly once, and the queue is left empty.
C1_QueueFlushedInOrderOnce ==
  [][FlushedOnAttach /\ QueueKept /\ WrittenWhenOpen /\ EachFrameOnce']_vars

\* a transport attached to a queue of two frames or more
C1_Witness ==
  \E c \in DOMAIN conns :
    /\ conns[c].flushed >= 2
    /\ managed[conns[c].managed].pendingMessages = <<>>

\* the control_response frames, queued or written
Responses ==
  {f \in UNION ({{managed[r].pendingMessages[j] : j \in DOMAIN managed[r].pendingMessages}
                   : r \in DOMAIN managed}
                \cup {{conns[c].sent[j] : j \in DOMAIN conns[c].sent} : c \in DOMAIN conns})
     : f.type = "control_response"}

\* C2: routing a can_use_tool control request produces exactly one
\* control_response that allows the tool, carries the request's id and
\* returns the request's input unchanged; no request is answered twice or
\* not at all, and nothing else produces a control_response.
C2_PermissionAnsweredOnce ==
  [][/\ \A c \in DOMAIN conns, msg \in QueueLines :
          (WsMessage(c, msg) /\ msg.type = "control_request"
                             /\ msg.subtype = "can_use_tool")
            => \E f \in Responses' \ Responses :
                 /\ Responses' = Responses \cup {f}
                 /\ f.subtype = "success"
                 /\ f.behavior = "allow"
                 /\ f.request_id = msg.request_id
                 /\ f.updatedInput = msg.input
     /\ (Responses' # Responses)
          => \E c \in DOMAIN conns, msg \in QueueLines :
               /\ WsMessage(c, msg)
               /\ msg.type = "control_request" /\ msg.subtype = "can_use_tool"]_vars

\* one permission request was answered on the open transport, another into
\* the queue
C2_Witness ==
  /\ \E c \in DOMAIN conns : \E j \in DOMAIN conns[c].sent :
       /\ j > conns[c].flushed
       /\ conns[c].sent[j].type = "control_response"
       /\ conns[c].sent[j].request_id = "rq1"
       /\ conns[c].sent[j].updatedInput = "in1"
  /\ \E r \in DOMAIN managed : \E j \in DOMAIN managed[r].pendingMessages :
       /\ managed[r].pendingMessages[j].type = "control_response"
       /\ managed[r].pendingMessages[j].request_id = "rq2"

\* ==================================================== session lifecycle
\* Callers post to two session ids, CLI processes start (or fail to),
\* connect, initialise, finish turns and exit, and sessions are killed.
Lines == {InitMsg("cli-1"), EndTurnResult}

Next ==
  \/ \E sid \in SessionIds, launch \in {"running", "failing"} :
       PostMessages(sid, FALSE, launch)
  \/ \E i \in DOMAIN requests : ResumeRequest(i)
  \/ \E path \in SessionIds : Connection(path)
  \/ \E c \in DOMAIN conns, msg \in Lines : WsMessage(c, msg)
  \/ \E r \in DOMAIN procs : ProcExit(r)
  \/ \E r \in DOMAIN procs : ProcError(r)
  \/ \E sid \in SessionIds : KillSession(sid)
  \/ \E r \in DOMAIN procs : KillTimer(r)

Spec == Init /\ [][Next]_vars

\* the lifecycle graph: starting -> connected -> ready -> busy -> ready,
\* and any state -> exited
Edges ==
  {<<"starting", "connected">>, <<"connected", "ready">>,
   <<"ready", "busy">>, <<"busy", "ready">>}
  \cup {<<st, "exited">> : st \in {"starting", "connected", "ready", "busy"}}

\* C3: every change of a session's lifecycle state is an edge of the
\* lifecycle graph (so that no session is busy that was never ready).
C3_TransitionsFollowGraph ==
  [][\A r \in DOMAIN managed :
       managed'[r].state # managed[r].state
         => <<managed[r].state, managed'[r].state>> \in Edges]_vars

\* C4: getOrCreate for a registered session that has not exited returns
\* that session (isNew = false): the registry, the records and the
\* processes stay as they are, so the id keeps its one process launch.
C4_GetOrCreateReusesLiveSession ==
  [][\A sid \in SessionIds, launch \in {"running", "failing"} :
       (PostMessages(sid, FALSE, launch)
          /\ sessions[sid] # 0 /\ managed[sessions[sid]].state # "exited")
         => /\ sessions' = sessions
            /\ procs' = procs
            /\ Len(managed') = Len(managed)
            /\ requests'[Len(requests')].sessionId = sid
            /\ requests'[Len(requests')].rec = 0]_vars

\* two calls reused the session that a first call created, in two of its
\* states, and the id has had one process
C4_Witness ==
  \E i, j \in DOMAIN requests :
    /\ i < j
    /\ sessions["s1"] # 0
    /\ requests[i].rec = 0 /\ requests[j].rec = 0
    /\ requests[i].sessionId = "s1" /\ requests[j].sessionId = "s1"
    /\ Cardinality({r \in DOMAIN managed : managed[r].sessionId = "s1"}) = 1
    /\ managed[sessions["s1"]].state = "busy"
    /\ managed[sessions["s1"]].readyResolved

\* C5: while the server runs, no session id has two running processes and
\* every registered session that has not exited has its process.
C5_ExactlyOneProcess ==
  ~crashed =>
    /\ \A sid \in SessionIds :
         Cardinality({r \in DOMAIN managed :
                        managed[r].sessionId = sid /\ procs[r].status = "running"}) <= 1
    /\ \A sid \in SessionIds :
         (sessions[sid] # 0 /\ managed[sessions[sid]].state # "exited")
           => procs[sessions[sid]].status \in {"running", "failing"}

\* ======================================================= the idle reaper
\* Time passes, sessions are used (a user message, a result) or exit, and
\* the reaper makes its passes.
InitReap == Boot(MaxReapObjects)

NextReap ==
  \/ \E sid \in SessionIds : PostMessages(sid, FALSE, "running")
  \/ \E i \in DOMAIN requests : ResumeRequest(i)
  \/ \E path \in SessionIds : Connection(path)
  \/ \E c \in DOMAIN conns, msg \in Lines : WsMessage(c, msg)
  \/ \E r \in DOMAIN procs : ProcExit(r)
  \/ \E r \in DOMAIN procs : KillTimer(r)
  \/ ReapIdleSessions
  \/ Tick

SpecReap == InitReap /\ [][NextReap]_vars

\* C6: a reaper pass kills (killSession: SIGTERM to the process if it runs,
\* then the grace period) every registered session that has not exited and
\* whose last activity is older than sessionTimeout, removes the exited
\* ones, and leaves every session whose last activity lies within
\* sessionTimeout registered and unsignalled.
C6_ReaperKillsIdleOnly ==
  [][ReapIdleSessions =>
       \A sid \in SessionIds :
         LET r == sessions[sid] IN
         r # 0 =>
           IF managed[r].state = "exited"
           THEN sessions'[sid] = 0 /\ procs'[r] = procs[r]
           ELSE IF now - managed[r].lastUsedAt > sessionTimeout
           THEN /\ sessions'[sid] = r
                /\ procs'[r].killers = procs[r].killers + 1
                /\ procs'[r].signals =
                     IF procs[r].status = "running"
                     THEN Append(procs[r].signals, "SIGTERM")
                     ELSE procs[r].signals
           ELSE sessions'[sid] = r /\ procs'[r] = procs[r]]_vars

\* after one pass at time 2, the session last used at 0 is being killed and
\* the session last used at 1 is untouched
C6_Witness ==
  /\ now = sessionTimeout + 1
  /\ sessions["s1"] # 0 /\ sessions["s2"] # 0
  /\ managed[sessions["s1"]].lastUsedAt = 0
  /\ procs[sessions["s1"]].signals = <<"SIGTERM">>
  /\ procs[sessions["s1"]].killers = 1
  /\ managed[sessions["s2"]].lastUsedAt = 1
  /\ procs[sessions["s2"]].signals = <<>>
  /\ procs[sessions["s2"]].killers = 0

\* ========================================================= killSession
\* Session "s1" is spawned, connects, is killed (more than once, before and
\* after its process exited) and respawned.  A pending grace timer fires:
\* the event loop runs every timer that is due.
InitKill == Boot(MaxKillObjects)

NextKill ==
  \/ PostMessages("s1", FALSE, "running")
  \/ Connection("s1")
  \/ \E r \in DOMAIN procs : ProcExit(r)
  \/ KillSession("s1")
  \/ \E r \in DOMAIN procs : KillTimer(r)

GraceTimer(r) == r \in DOMAIN procs /\ KillTimer(r)

SpecKill ==
  /\ InitKill /\ [][NextKill]_vars
  /\ \A r \in 1..MaxKillObjects : WF_vars(GraceTimer(r))

\* the elements of a sequence
Range(seq) == {seq[j] : j \in DOMAIN seq}

\* C7: SIGKILL is delivered only by the grace timer, to a process that is
\* still running and that got SIGTERM before; a process that exited gets no
\* signal; when the grace timer fires, or the process exits during the
\* grace period, the session id leaves the registry; and every killSession
\* call completes, whatever the process does.
C7_KillSessionForcesAfterGrace ==
  /\ [][\A r \in DOMAIN procs :
          /\ (procs'[r].signals # procs[r].signals
                 /\ procs'[r].signals[Len(procs'[r].signals)] = "SIGKILL")
               => /\ KillTimer(r)
                  /\ procs[r].status = "running"
                  /\ "SIGTERM" \in Range(procs[r].signals)
          /\ procs[r].status = "exited" => procs'[r].signals = procs[r].signals
          /\ KillTimer(r)
               => /\ sessions'[managed[r].sessionId] = 0
                  /\ procs[r].status = "running"
                       => procs'[r].signals = Append(procs[r].signals, "SIGKILL")
          /\ (ProcExit(r) /\ procs[r].killers > 0)
               => /\ sessions'[managed[r].sessionId] = 0
                  /\ procs'[r].killers = 0
                  /\ procs'[r].signals = procs[r].signals]_vars
  /\ \A r \in 1..MaxKillObjects :
       (r \in DOMAIN procs /\ procs[r].killers > 0)
         ~> (r \in DOMAIN procs /\ procs[r].killers = 0)

\* a process that ignored SIGTERM was forced and its session removed, and a
\* kill of a session whose process had exited before has completed
C7_Witness ==
  \E r, x \in DOMAIN procs :
    /\ procs[r].signals = <<"SIGTERM", "SIGKILL">>
    /\ procs[r].killers = 0
    /\ procs[x].status = "exited" /\ procs[x].signals = <<>>
    /\ procs[x].killers = 0
    /\ sessions["s1"] = 0
    /\ nkills = 2

\* ================================================= one non-streaming call
\* Non-streaming calls to session "s1" race their four ends: the result
\* frame, a spawn error, the process's exit and the call's timeout.
CallLines == {InitMsg("cli-1"), HiAssistant, EndTurnResult}

InitCall == Boot(MaxCallObjects)

NextCall ==
  \/ \E launch \in {"running", "failing"} : PostMessages("s1", FALSE, launch)
  \/ \E i \in DOMAIN requests : ResumeRequest(i)
  \/ \E i \in DOMAIN requests : ReadyTimeout(i)
  \/ \E i \in DOMAIN requests : TurnTimeout(i)
  \/ Connection("s1")
  \/ \E c \in DOMAIN conns, msg \in CallLines : WsMessage(c, msg)
  \/ \E r \in DOMAIN procs : ProcExit(r)
  \/ \E r \in DOMAIN procs : ProcError(r)

SpecCall == InitCall /\ [][NextCall]_vars

\* the four termination sources of a call
Sources == {"result", "error", "exit", "timeout"}

\* the positions in a call's history that hold a termination source
Ends(h) == {j \in DOMAIN h : h[j].type \in Sources}

First(S) == CHOOSE j \in S : \A k \in S : j <= k

\* the response the termination source at position j of history h asks for
Outcome(h, j) ==
  CASE h[j].type = "result" ->
         IF \E k \in 1..(j - 1) : h[k].type = "assistant"
         THEN [status |-> 200, error |-> ""]
         ELSE [status |-> 500, error |-> "No response received from Claude Code"]
    [] h[j].type = "error" -> [status |-> 500, error |-> "spawn claude ENOENT"]
    [] h[j].type = "exit" -> [status |-> 500, error |-> "CLI process exited with code"]
    [] h[j].type = "timeout" -> [status |-> 504, error |-> "Request timed out"]

\* C8: a non-streaming call is pending and listening until the first of its
\* termination sources occurs; that source alone determines the response,
\* the call's listeners are gone from then on, and the only thing the call
\* still runs is its timer's callback, which changes nothing.
C8_FirstSourceWinsOnce ==
  \A i \in DOMAIN requests :
    (~requests[i].stream /\ requests[i].phase = "turn") =>
      LET q == requests[i]
          h == q.heard
      IN IF Ends(h) = {}
         THEN q.status = 0 /\ q.listening /\ q.timer
         ELSE LET f == First(Ends(h))
              IN /\ q.status = Outcome(h, f).status
                 /\ q.error = Outcome(h, f).error
                 /\ (q.status = 200) = (q.response # NoResponse)
                 /\ ~q.listening
                 /\ \A j \in (f + 1)..Len(h) : h[j].type = "timeout"
                 /\ q.timer = ~(\E j \in DOMAIN h : h[j].type = "timeout")

\* a call answered by its result whose timer fired afterwards, next to a
\* call that the exit of the process ended
C8_Witness ==
  \E i, j \in DOMAIN requests :
    /\ requests[i].heard = <<HiAssistant, EndTurnResult, [type |-> "timeout"]>>
    /\ requests[i].status = 200
    /\ requests[j].heard = <<[type |-> "exit"]>>
    /\ requests[j].status = 500

\* ===================================================== response assembly
\* Streaming and non-streaming calls to session "s1" hear assistant
\* messages, stream events and results of several shapes, or time out.
AsmLines ==
  {InitMsg("cli-1"), HiAssistant, ToolAssistant, DeltaEvent,
   EndTurnResult, NullResult, RefusalResult}

InitAsm == Boot(MaxAsmObjects)

NextAsm ==
  \/ \E stream \in BOOLEAN : PostMessages("s1", stream, "running")
  \/ \E i \in DOMAIN requests : ResumeRequest(i)
  \/ \E i \in DOMAIN requests : TurnTimeout(i)
  \/ Connection("s1")
  \/ \E c \in DOMAIN conns, msg \in AsmLines : WsMessage(c, msg)

SpecAsm == InitAsm /\ [][NextAsm]_vars

\* what of a server-sent event the claim names
Shown(e) == <<e.event, e.index, e.text, e.stop_reason>>

ShownEvents(q) == [j \in DOMAIN q.events |-> Shown(q.events[j])]

\* C9 (as the code has it): a streaming call that heard one assistant
\* message with the single text block "hi" and then a result with
\* stop_reason end_turn has emitted exactly ping, message_start,
\* content_block_start(0), content_block_delta(0, "hi"),
\* content_block_stop(0), message_delta(end_turn), message_stop, and its
\* stream is closed.
C9_StreamingSequenceAfterPing ==
  \A i \in DOMAIN requests :
    (requests[i].stream /\ requests[i].heard = <<HiAssistant, EndTurnResult>>)
      => /\ ShownEvents(requests[i]) =
              << <<"ping", -1, "", "">>,
                 <<"message_start", -1, "", "null">>,
                 <<"content_block_start", 0, "", "">>,
                 <<"content_block_delta", 0, "hi", "">>,
                 <<"content_block_stop", 0, "", "">>,
                 <<"message_delta", -1, "", "end_turn">>,
                 <<"message_stop", -1, "", "">> >>
         /\ requests[i].closed
         /\ ~requests[i].listening

C9_Witness ==
  \E i \in DOMAIN requests :
    /\ requests[i].stream
    /\ requests[i].heard = <<HiAssistant, EndTurnResult>>
    /\ Len(requests[i].events) = 7

\* C9 as stated: the emitted sequence is exactly the six events from
\* message_start to message_stop.
C9_StreamingSequenceAsStated ==
  \A i \in DOMAIN requests :
    (requests[i].stream /\ requests[i].heard = <<HiAssistant, EndTurnResult>>)
      => ShownEvents(requests[i]) =
           << <<"message_start", -1, "", "null">>,
              <<"content_block_start", 0, "", "">>,
              <<"content_block_delta", 0, "hi", "">>,
              <<"content_block_stop", 0, "", "">>,
              <<"message_delta", -1, "", "end_turn">>,
              <<"message_stop", -1, "", "">> >>

\* a non-streaming call that heard an assistant message and then a result
HeardTurn(q) ==
  /\ ~q.stream
  /\ Len(q.heard) = 2
  /\ q.heard[1].type = "assistant"
  /\ q.heard[2].type = "result"

\* the API's stop reasons
StopReasons == {"end_turn", "max_tokens", "stop_sequence", "tool_use"}

\* C10 (as the code has it): the response of such a call has status 200,
\* role assistant, the assistant message's content blocks, the result's stop
\* reason (the assistant's when the result has none; a reason the API does
\* not know becomes end_turn, none becomes null) and the result's usage;
\* the assistant's usage is not used.
C10_ResponseUsesResultUsage ==
  \A i \in DOMAIN requests :
    HeardTurn(requests[i]) =>
      LET a == requests[i].heard[1]
          r == requests[i].heard[2]
          raw == IF r.stop_reason \in {"null", ""} THEN a.stop_reason ELSE r.stop_reason
          p == requests[i].response
      IN /\ requests[i].status = 200
         /\ p.role = "assistant"
         /\ p.content = a.content
         /\ p.stop_reason = IF raw \in {"null", ""} THEN "null"
                            ELSE IF raw \in StopReasons THEN raw ELSE "end_turn"
         /\ p.usage = r.usage

\* the turn of the example happened: "hi" with usage 3/1, then end_turn
C10_Witness ==
  \E i \in DOMAIN requests :
    /\ ~requests[i].stream
    /\ requests[i].heard = <<HiAssistant, EndTurnResult>>
    /\ requests[i].status = 200
    /\ requests[i].response.stop_reason = "end_turn"
    /\ requests[i].response.usage = Usage(5, 2, -1, -1)

\* C10 as stated: the usage fields combine the assistant's and the result's
\* usage, each token count being the sum of the two.
C10_ResponseCombinesUsage ==
  \A i \in DOMAIN requests :
    HeardTurn(requests[i]) =>
      LET a == requests[i].heard[1]
          r == requests[i].heard[2]
          p == requests[i].response
      IN /\ p.role = "assistant"
         /\ p.content = a.content
         /\ p.usage.input_tokens = a.usage.input_tokens + r.usage.input_tokens
         /\ p.usage.output_tokens = a.usage.output_tokens + r.usage.output_tokens

\* ================================================== the transport endpoint
\* Connections arrive for a malformed URL, for a session id that is not (or
\* no longer) registered and for the registered session "s1", while "s1" is
\* spawned, used and killed.
GatePaths == {"bad", "s1", "s2"}

InitGate == Boot(MaxGateObjects)

NextGate ==
  \/ PostMessages("s1", FALSE, "running")
  \/ \E i \in DOMAIN requests : ResumeRequest(i)
  \/ \E path \in GatePaths : Connection(path)
  \/ \E c \in DOMAIN conns, msg \in Lines : WsMessage(c, msg)
  \/ \E c \in DOMAIN conns : WsClose(c)
  \/ \E r \in DOMAIN procs : ProcExit(r)
  \/ KillSession("s1")
  \/ \E r \in DOMAIN procs : KillTimer(r)

SpecGate == InitGate /\ [][NextGate]_vars

\* C11: a connection whose URL does not match the session path pattern is
\* closed with code 4000, one whose session id is not registered with code
\* 4001; accepting either changes no session's socket, state or queue (nor
\* the registry, the processes or the calls), no line of such a connection
\* is ever routed, nothing is ever written to it and it is never a
\* session's socket.
C11_RefusedConnectionTouchesNothing ==
  /\ [][\A path \in GatePaths :
          (Connection(path) /\ (path = "bad" \/ sessions[path] = 0))
            => /\ managed' = managed
               /\ sessions' = sessions
               /\ procs' = procs
               /\ requests' = requests
               /\ SubSeq(conns', 1, Len(conns)) = conns
               /\ conns'[Len(conns')].closeCode = (IF path = "bad" THEN 4000 ELSE 4001)
               /\ conns'[Len(conns')].readyState # "OPEN"]_vars
  /\ [][\A c \in DOMAIN conns, msg \in Lines :
          WsMessage(c, msg) => conns[c].closeCode = 0]_vars
  /\ [](\A c \in DOMAIN conns :
          conns[c].closeCode # 0
            => /\ conns[c].sent = <<>>
               /\ conns[c].readyState # "OPEN"
               /\ \A r \in DOMAIN managed : managed[r].cliSocket # c)

\* both refusals happened next to a session whose CLI is connected and
\* initialised
C11_Witness ==
  \E b, u \in DOMAIN conns :
    /\ conns[b].closeCode = 4000
    /\ conns[u].closeCode = 4001
    /\ sessions["s1"] # 0
    /\ managed[sessions["s1"]].cliSocket # 0
    /\ managed[sessions["s1"]].state = "ready"

\* ============================================================ readiness
\* the message of the route's answer to a readiness timeout
TimeoutError == "Failed to initialize session: Timeout waiting for CLI to initialize"

\* C12: a call whose getOrCreate created the session goes on (getOrCreate
\* returns) only when the session's init frame was routed, and the session
\* is ready at that moment; a readiness timeout fails the call with the
\* timeout error and leaves the registry, the record, its process and the
\* sockets as they are, so that the session can still become ready.
C12_CreatorWaitsForReadyOrTimesOut ==
  /\ [](\A i \in DOMAIN requests :
          (requests[i].rec # 0 /\ requests[i].phase \in {"resume", "turn"})
            => managed[requests[i].rec].readyResolved)
  /\ [][\A i \in DOMAIN requests :
          /\ ResumeRequest(i) => managed[requests[i].rec].state = "ready"
          /\ (requests[i].phase = "waitReady" /\ requests'[i].phase # "waitReady")
               => \/ /\ requests'[i].phase = "resume"
                     /\ managed'[requests[i].rec].state = "ready"
                  \/ /\ ReadyTimeout(i)
                     /\ requests'[i].phase = "failed"
                     /\ requests'[i].status = 500
                     /\ requests'[i].error = TimeoutError
                     /\ sessions' = sessions
                     /\ managed' = managed
                     /\ procs' = procs
                     /\ conns' = conns]_vars

\* a call timed out waiting, and the session it created is registered, has
\* its running process and became ready afterwards
C12_Witness ==
  \E i \in DOMAIN requests :
    /\ requests[i].error = TimeoutError
    /\ requests[i].rec # 0
    /\ sessions[requests[i].sessionId] = requests[i].rec
    /\ managed[requests[i].rec].state = "ready"
    /\ procs[requests[i].rec].status = "running"
    /\ procs[requests[i].rec].signals = <<>>

\* C13: whenever getOrCreate returns a session, found or created, the CLI of
\* that session is ready: its init frame was routed before the return, also
\* when a second caller asks for a session that a first caller is still
\* waiting for.
C13_GetOrCreateReturnsReadySession ==
  [][/\ \A sid \in SessionIds, launch \in {"running", "failing"} :
          (PostMessages(sid, FALSE, launch) /\ IsLive(sessions, managed, sid))
            => managed[sessions[sid]].readyResolved
     /\ \A i \in DOMAIN requests :
          ResumeRequest(i) => managed[requests[i].rec].readyResolved]_vars

\* C14: when the launch of a session's process fails, the session's state
\* becomes exited (the terminal state) and every call waiting on the
\* session, for its readiness or for a result, is failed in that step.
C14_SpawnErrorFailsSessionAndWaiters ==
  [][\A r \in DOMAIN procs :
       ProcError(r)
         => /\ managed'[r].state = "exited"
            /\ ~crashed'
            /\ \A i \in DOMAIN requests :
                 (/\ requests[i].sessionId = managed[r].sessionId
                  /\ requests[i].status = 0
                  /\ requests[i].phase \in {"waitReady", "turn"})
                   => requests'[i].status >= 500]_vars

\* ======================================================= turns that end
\* Streaming and non-streaming calls to session "s1" wait for readiness and
\* for their result while the CLI connects, answers or not, exits or fails
\* to start, the session is killed, and the timers run out.
TurnLines == {InitMsg("cli-1"), EndTurnResult}

InitTurn == Boot(MaxTurnObjects)

NextTurn ==
  \/ \E stream \in BOOLEAN, launch \in {"running", "failing"} :
       PostMessages("s1", stream, launch)
  \/ \E i \in DOMAIN requests : ResumeRequest(i)
  \/ \E i \in DOMAIN requests : ReadyTimeout(i)
  \/ \E i \in DOMAIN requests : TurnTimeout(i)
  \/ Connection("s1")
  \/ \E c \in DOMAIN conns, msg \in TurnLines : WsMessage(c, msg)
  \/ \E r \in DOMAIN procs : ProcExit(r)
  \/ \E r \in DOMAIN procs : ProcError(r)
  \/ KillSession("s1")
  \/ \E r \in DOMAIN procs : KillTimer(r)

SpecTurn == InitTurn /\ [][NextTurn]_vars

\* the message of a non-streaming call that the exit of the process ended
ExitError == "CLI process exited with code"

\* call i is waiting for a result
Waiting(i) ==
  /\ requests[i].phase = "turn"
  /\ IF requests[i].stream THEN ~requests[i].closed ELSE requests[i].status = 0

\* C15 (as the code has it): when a session's process exits, the state of
\* its record becomes exited and no call is left waiting for a result on the
\* session id: a non-streaming call is answered 500 with the process-exited
\* error, a streaming call's event sequence is closed with no further event
\* and no error, and the listeners of both are removed.
C15_ExitEndsWaitingCalls ==
  [][\A r \in DOMAIN procs :
       ProcExit(r)
         => /\ managed'[r].state = "exited"
            /\ \A i \in DOMAIN requests :
                 (Waiting(i) /\ requests[i].sessionId = managed[r].sessionId)
                   => /\ ~Waiting(i)'
                      /\ ~requests'[i].listening
                      /\ IF requests[i].stream
                         THEN /\ requests'[i].closed
                              /\ requests'[i].events = requests[i].events
                              /\ requests'[i].error = ""
                         ELSE /\ requests'[i].status = 500
                              /\ requests'[i].error = ExitError]_vars

\* the exit of the process ended a non-streaming and a streaming call
C15_Witness ==
  \E i, j \in DOMAIN requests :
    /\ ~requests[i].stream
    /\ requests[i].heard = <<[type |-> "exit"]>>
    /\ requests[i].status = 500
    /\ requests[j].stream
    /\ requests[j].heard = <<[type |-> "exit"]>>
    /\ requests[j].closed
    /\ requests[j].events = <<ssePing>>

\* C15 as stated: every call waiting for a result, streaming or not, is
\* ended with an explicit process-exited failure.
C15_ExitFailsEveryWaitingCall ==
  [][\A r \in DOMAIN procs :
       ProcExit(r)
         => /\ managed'[r].state = "exited"
            /\ \A i \in DOMAIN requests :
                 (Waiting(i) /\ requests[i].sessionId = managed[r].sessionId)
                   => /\ ~Waiting(i)'
                      /\ requests'[i].error = ExitError]_vars

\* C18: a turn timeout changes the waiting call only: the registry, the
\* session's record (state, lastUsedAt, socket, queue), its process and the
\* sockets stay as they are and no frame is sent; a non-streaming call that
\* was waiting is answered 504, a streaming call's sequence is closed.
C18_TurnTimeoutTouchesCallOnly ==
  [][\A i \in DOMAIN requests :
       TurnTimeout(i)
         => /\ sessions' = sessions
            /\ managed' = managed
            /\ procs' = procs
            /\ conns' = conns
            /\ nframes' = nframes
            /\ \A j \in DOMAIN requests : j # i => requests'[j] = requests[j]
            /\ ~requests'[i].listening
            /\ Waiting(i)
                 => IF requests[i].stream
                    THEN requests'[i].closed
                    ELSE requests'[i].status = 504]_vars

\* a call timed out during its turn: the session is registered and busy,
\* the user message is where it was written, the process runs unsignalled
C18_Witness ==
  \E i \in DOMAIN requests :
    /\ requests[i].heard = <<[type |-> "timeout"]>>
    /\ requests[i].status = 504
    /\ sessions["s1"] # 0
    /\ managed[sessions["s1"]].state = "busy"
    /\ managed[sessions["s1"]].cliSocket # 0
    /\ Len(conns[managed[sessions["s1"]].cliSocket].sent) = 1
    /\ procs[sessions["s1"]].status = "running"
    /\ procs[sessions["s1"]].signals = <<>>

\* ================================================== killSession's effect
\* the lifecycle states
States == {"starting", "connected", "ready", "busy", "exited"}

\* C16: killSession for an id that is not registered changes nothing at
\* all; for a registered id it leaves the record registered while the
\* termination is in progress, and when the termination completes (the
\* grace timer fires, or the process exits during the grace period) the
\* session id is removed from the registry, in whatever state the record is.
C16_KillSessionRemovesRecord ==
  [][/\ \A sid \in SessionIds :
          KillSession(sid)
            => IF sessions[sid] = 0
               THEN UNCHANGED vars
               ELSE /\ sessions' = sessions
                    /\ managed' = managed
                    /\ procs'[sessions[sid]].killers = procs[sessions[sid]].killers + 1
     /\ \A r \in DOMAIN procs :
          (KillTimer(r) \/ (ProcExit(r) /\ procs[r].killers > 0))
            => /\ managed[r].state \in States
               /\ sessions'[managed[r].sessionId] = 0
               /\ \A sid \in SessionIds :
                    sid # managed[r].sessionId => sessions'[sid] = sessions[sid]]_vars

\* the kill of a busy session, whose CLI had connected and initialised, has
\* completed by the grace timer, and its id is gone from the registry
C16_Witness ==
  \E r \in DOMAIN managed :
    /\ managed[r].state = "busy"
    /\ managed[r].readyResolved
    /\ procs[r].signals = <<"SIGTERM", "SIGKILL">>
    /\ procs[r].killers = 0
    /\ sessions[managed[r].sessionId] = 0

\* ===================================================== bounded waiting
\* Calls to session "s1" as in SpecTurn, with a CLI that starts, in the
\* behaviours in which the event loop runs: a pending promise continuation
\* runs, and a timer that is armed fires (the readiness timer of
\* waitForReady, the assemblers' turn timers, the grace timer of
\* killSession).  Nothing else is assumed of the CLI: it may never connect,
\* never send init or a result, and never exit.
InitWait == Boot(MaxWaitObjects)

NextWait ==
  \/ \E stream \in BOOLEAN : PostMessages("s1", stream, "running")
  \/ \E i \in DOMAIN requests : ResumeRequest(i)
  \/ \E i \in DOMAIN requests : ReadyTimeout(i)
  \/ \E i \in DOMAIN requests : TurnTimeout(i)
  \/ Connection("s1")
  \/ \E c \in DOMAIN conns, msg \in TurnLines : WsMessage(c, msg)
  \/ \E r \in DOMAIN procs : ProcExit(r)
  \/ KillSession("s1")
  \/ \E r \in DOMAIN procs : KillTimer(r)

Continuation(i) == i \in DOMAIN requests /\ ResumeRequest(i)

ReadyTimer(i) == i \in DOMAIN requests /\ ReadyTimeout(i)

TurnTimer(i) == i \in DOMAIN requests /\ TurnTimeout(i)

SpecWait ==
  /\ InitWait /\ [][NextWait]_vars
  /\ \A i \in 1..MaxWaitObjects :
       WF_vars(Continuation(i)) /\ WF_vars(ReadyTimer(i)) /\ WF_vars(TurnTimer(i))
  /\ \A r \in 1..MaxWaitObjects : WF_vars(GraceTimer(r))

\* getOrCreate of call i has not returned
InGetOrCreate(i) ==
  i \in DOMAIN requests /\ requests[i].phase \in {"waitReady", "resume"}

C19_NoSecondTermination ==
  [][\A sid \in SessionIds :
       (/\ KillSession(sid) \/ ReapIdleSessions
        /\ sessions[sid] # 0
        /\ procs[sessions[sid]].killers > 0)
         => /\ procs'[sessions[sid]].signals = procs[sessions[sid]].signals
            /\ procs'[sessions[sid]].killers = procs[sessions[sid]].killers]_vars

\* C20: once a connection of a session has closed, no later connection
\* becomes the session's socket, so that a frame sent after the close is
\* never written to a socket.
C20_NoReattachment ==
  [][\A r \in DOMAIN managed :
       (\E c \in DOMAIN conns : conns[c].managed = r /\ conns[c].readyState = "CLOSED")
         => /\ managed'[r].cliSocket \in {0, managed[r].cliSocket}
            /\ \A c \in DOMAIN conns' :
                 (conns'[c].managed = r /\ c \notin DOMAIN conns) => conns'[c].sent = <<>>]_vars

\* ================================================== the terminal state
\* C21: exited is terminal: no step changes the state of a record whose
\* state is exited, and no getOrCreate call finds the record of a process
\* that has exited live.
C21_ExitedIsTerminal ==
  [][/\ \A r \in DOMAIN managed :
          managed[r].state = "exited" => managed'[r].state = "exited"
     /\ \A sid \in SessionIds, launch \in {"running", "failing"} :
          (PostMessages(sid, FALSE, launch) /\ IsLive(sessions, managed, sid))
            => procs[sessions[sid]].status # "exited"]_vars

\* ======================================================= the init frame
\* The CLI of session "s1" connects and sends frames of every kind, its
\* init frame among them or not, while callers wait in getOrCreate; the
\* event loop runs the pending continuations.
KeepAlive == [type |-> "keep_alive"]

SystemStatus == [type |-> "system", subtype |-> "status", session_id |-> "cli-9"]

ReadyLines ==
  {InitMsg("cli-1"), SystemStatus, KeepAlive, HiAssistant, DeltaEvent, EndTurnResult,
   ControlRequest("rq1", "can_use_tool", "in1")}

InitReady == Boot(MaxReadyObjects)

NextReady ==
  \/ PostMessages("s1", FALSE, "running")
  \/ \E i \in DOMAIN requests : ResumeRequest(i)
  \/ \E i \in DOMAIN requests : ReadyTimeout(i)
  \/ Connection("s1")
  \/ \E c \in DOMAIN conns, msg \in ReadyLines : WsMessage(c, msg)
  \/ \E r \in DOMAIN procs : ProcExit(r)

SpecReady ==
  /\ InitReady /\ [][NextReady]_vars
  /\ \A i \in 1..MaxReadyObjects : WF_vars(Continuation(i))

IsInit(msg) == msg.type = "system" /\ msg.subtype = "init"

\* C22: routing an init frame for a session in state connected records the
\* CLI's session id, makes the state ready and resolves the readiness
\* promise: every call waiting in waitForReady on that record gets its
\* continuation, which then runs (getOrCreate returns and the turn
\* starts); no frame of another kind, and no init frame of another record,
\* gives a waiting call its continuation.
C22_InitUnblocksWaiters ==
  /\ [][\A c \in DOMAIN conns, msg \in ReadyLines :
          (WsMessage(c, msg) /\ IsInit(msg)
             /\ managed[conns[c].managed].state = "connected")
            => /\ managed'[conns[c].managed].cliSessionId = msg.session_id
               /\ managed'[conns[c].managed].state = "ready"
               /\ \A i \in DOMAIN requests :
                    (requests[i].rec = conns[c].managed /\ requests[i].phase = "waitReady")
                      => requests'[i].phase = "resume"]_vars
  /\ [][\A i \in DOMAIN requests :
          (requests[i].phase = "waitReady" /\ requests'[i].phase = "resume")
            => \E c \in DOMAIN conns, msg \in ReadyLines :
                 /\ WsMessage(c, msg)
                 /\ IsInit(msg)
                 /\ conns[c].managed = requests[i].rec]_vars
  /\ \A i \in 1..MaxReadyObjects :
       (i \in DOMAIN requests /\ requests[i].phase = "resume")
         ~> (i \in DOMAIN requests /\ requests[i].phase = "turn")

\* the init frame let the creator of the session go on: its user message
\* was written with the CLI's session id
C22_Witness ==
  \E i \in DOMAIN requests :
    /\ requests[i].rec # 0
    /\ requests[i].phase = "turn"
    /\ managed[requests[i].rec].cliSessionId = "cli-1"
    /\ managed[requests[i].rec].cliSocket # 0
    /\ conns[managed[requests[i].rec].cliSocket].sent
         = <<Frame("user", "", "cli-1", "", "", "", 1)>>

\* ================================================ reaping dead sessions
\* C23: a session whose process has exited is removed by the reaper: every
\* pass deletes every registered session whose process has exited and
\* issues no kill for it (so that it is gone after the next pass).
C23_ReaperRemovesExited ==
  [][ReapIdleSessions
       => \A sid \in SessionIds :
            (sessions[sid] # 0 /\ procs[sessions[sid]].status = "exited")
              => /\ sessions'[sid] = 0
                 /\ procs'[sessions[sid]] = procs[sessions[sid]]]_vars

\* ============================================= routing and the registry
\* C24: a frame is routed, and a notification emitted under a session id,
\* only for a record that is registered: once killSession or the reaper has
\* removed a session, no line that arrives on its connection is routed.
C24_RoutesOnlyRegistered ==
  [][\A c \in DOMAIN conns, msg \in Lines :
       WsMessage(c, msg) => sessions[conns[c].path] = conns[c].managed]_vars

\* ====================================================== session isolation
\* a step of the server that belongs to session id a: a request for it, a
\* connection or a line for it, an event of one of its processes, a kill
OnSession(a) ==
  \/ \E launch \in {"running", "failing"} : PostMessages(a, FALSE, launch)
  \/ \E i \in DOMAIN requests : requests[i].sessionId = a /\ ResumeRequest(i)
  \/ Connection(a)
  \/ \E c \in DOMAIN conns, msg \in Lines : conns[c].path = a /\ WsMessage(c, msg)
  \/ \E r \in DOMAIN procs :
       /\ managed[r].sessionId = a
       /\ ProcExit(r) \/ ProcError(r) \/ KillTimer(r)
  \/ KillSession(a)

\* the step leaves everything of session id b as it is
Kept(b) ==
  /\ sessions'[b] = sessions[b]
  /\ \A r \in DOMAIN managed :
       managed[r].sessionId = b => managed'[r] = managed[r] /\ procs'[r] = procs[r]
  /\ \A c \in DOMAIN conns : conns[c].path = b => conns'[c] = conns[c]
  /\ \A i \in DOMAIN requests : requests[i].sessionId = b => requests'[i] = requests[i]

\* a call on session id b is waiting, for readiness or for its result
HasWaiter(b) ==
  \E i \in DOMAIN requests :
    /\ requests[i].sessionId = b
    /\ requests[i].phase = "waitReady" \/ Waiting(i)

\* C25: for distinct session ids a and b, a step that belongs to a changes
\* nothing of b (its registry entry, records, processes, sockets and
\* calls) and does not take the server from under a call waiting on b.
C25_SessionsIsolated ==
  [][\A a, b \in SessionIds :
       (a # b /\ OnSession(a))
         => /\ Kept(b)
            /\ HasWaiter(b) => ~crashed']_vars

\* ================================================== the streamed blocks
\* A streaming call to session "s1" hears assistant messages and stream
\* events that carry their own block index, in any order, then its result.
StartEvent == StreamEvent("content_block_start", 0, TextBlock(""), "", "")

IndexedDelta == StreamEvent("content_block_delta", 0, NoBlock, "text_delta", "h")

StopEvent == StreamEvent("content_block_stop", 0, NoBlock, "", "")

StreamLines ==
  {InitMsg("cli-1"), HiAssistant, StartEvent, IndexedDelta, StopEvent, DeltaEvent,
   EndTurnResult}

InitStream == Boot(MaxStreamObjects)

NextStream ==
  \/ PostMessages("s1", TRUE, "running")
  \/ \E i \in DOMAIN requests : ResumeRequest(i)
  \/ Connection("s1")
  \/ \E c \in DOMAIN conns, msg \in StreamLines : WsMessage(c, msg)

SpecStream == InitStream /\ [][NextStream]_vars

BlockEvents == {"content_block_start", "content_block_delta", "content_block_stop"}

\* the positions of the content_block_start events in ev
StartsOf(ev) == {j \in DOMAIN ev : ev[j].event = "content_block_start"}

\* C26: in the events of a streaming call, message_start precedes every
\* block event, the indices of the content_block_start events increase
\* strictly from 0, every content_block_delta and content_block_stop has
\* the index of an earlier content_block_start, and once the result was
\* heard the sequence ends with message_delta, message_stop.
C26_BlockIndicesTracked ==
  \A i \in DOMAIN requests :
    requests[i].stream =>
      LET ev == requests[i].events
          h == requests[i].heard
      IN /\ \A j \in DOMAIN ev :
              ev[j].event \in BlockEvents
                => \E k \in 1..(j - 1) : ev[k].event = "message_start"
         /\ \A j, k \in StartsOf(ev) : j < k => ev[j].index < ev[k].index
         /\ \A j \in StartsOf(ev) :
              (\A k \in StartsOf(ev) : j <= k) => ev[j].index = 0
         /\ \A j \in DOMAIN ev :
              ev[j].event \in {"content_block_delta", "content_block_stop"}
                => \E k \in 1..(j - 1) :
                     ev[k].event = "content_block_start" /\ ev[k].index = ev[j].index
         /\ (\E j \in DOMAIN h : h[j].type = "result")
              => /\ Len(ev) >= 2
                 /\ ev[Len(ev) - 1].event = "message_delta"
                 /\ ev[Len(ev)].event = "message_stop"

\* =================================================== the socket handle
\* C27: the close of a connection clears the session's socket only if that
\* connection is the one attached: after a second connection has attached,
\* the close of the first leaves the second as the session's socket.
C27_CloseClearsOwnHandleOnly ==
  [][\A c \in DOMAIN conns :
       (WsClose(c) /\ managed[conns[c].managed].cliSocket # c)
         => managed'[conns[c].managed].cliSocket
              = managed[conns[c].managed].cliSocket]_vars

\* ================================================ results and their calls
\* C28: a result notification answers the one call whose turn it ends: no
\* routed result (or assistant message) settles or fills the responses of
\* two calls.
C28_ResultAnswersOneCall ==
  [][\A c \in DOMAIN conns, msg \in CallLines :
       (WsMessage(c, msg) /\ msg.type \in {"result", "assistant"})
         => Cardinality({i \in DOMAIN requests :
                           \/ requests'[i].status # requests[i].status
                           \/ requests'[i].lastAssistant # requests[i].lastAssistant}) <= 1]_vars

\* ======================================================== the send order
\* the numbers (in send order) of the frames of record r that were written
\* to a socket, and of those waiting in its queue
WrittenTo(r) ==
  UNION {{conns[c].sent[j].n : j \in DOMAIN conns[c].sent}
           : c \in {d \in DOMAIN conns : conns[d].managed = r}}

QueuedIn(r) == {managed[r].pendingMessages[j].n : j \in DOMAIN managed[r].pendingMessages}

\* C29: the frames of a session are written in the order of their
\* sendToCLI calls: a step writes only frames sent after every frame
\* written before, each socket holds its frames in send order, no written
\* frame was sent after a frame that is still queued, and the queue is
\* empty whenever the session's socket is open.
C29_WrittenInSendOrder ==
  /\ [][\A r \in DOMAIN managed :
          \A a \in WrittenTo(r)' \ WrittenTo(r), b \in WrittenTo(r) : b < a]_vars
  /\ [](\A c \in DOMAIN conns : InSendOrder(conns[c].sent))
  /\ [](\A r \in DOMAIN managed :
          \A w \in WrittenTo(r), q \in QueuedIn(r) : w < q)
  /\ [](\A r \in DOMAIN managed :
          (managed[r].cliSocket # 0 /\ conns[managed[r].cliSocket].readyState = "OPEN")
            => managed[r].pendingMessages = <<>>)

\* a socket got a queued frame by the flush and a later frame directly,
\* and after it closed a further frame is waiting in the queue
C29_Witness ==
  \E c \in DOMAIN conns :
    /\ conns[c].flushed = 1
    /\ Len(conns[c].sent) = 2
    /\ conns[c].readyState # "OPEN"
    /\ Len(managed[conns[c].managed].pendingMessages) = 1

====
